---- MODULE Spec2Model ----
(***************************************************************************)
(* Asterisk eSpeak application (app_espeak): configuration loading, the    *)
(* per-request pipeline cache check -> synthesis -> resampling -> playback *)
(* -> cache write, and the module life cycle.                              *)
(*                                                                         *)
(* The repository holds two builds of the application, and the model holds *)
(* both; the variable build says which one a behaviour runs:               *)
(*   "sndfile"  : src/app_espeak.c       (libespeak + libsndfile)          *)
(*   "espeakng" : src/unnamed/part_002   (libespeak-ng, raw_resample)      *)
(*                                                                         *)
(* Specifications:                                                         *)
(*   Spec     : two requests that run concurrently, reloads between them   *)
(*   SpecSolo : one request, with a reload at any point of it              *)
(*   SpecCfg  : load, reload and unload over all kinds of espeak.conf      *)
(*   SpecRs   : the resample stage over native rates and frame counts      *)
(***************************************************************************)
EXTENDS Integers, Sequences, FiniteSets, TLC

Builds == {"sndfile", "espeakng"}

(***************************************************************************)
(* Program constants.                                                      *)
(***************************************************************************)
MAXLEN_SNDFILE == 2048
MAXLEN_ESPEAKNG == 4096
MAXLEN(b) == IF b = "sndfile" THEN MAXLEN_SNDFILE ELSE MAXLEN_ESPEAKNG
DEF_RATE == 8000
DEF_SPEED == 150
DEF_VOLUME == 100
DEF_WORDGAP == 1
DEF_PITCH == 50
DEF_CAPIND == 0
DEF_VOICE(b) == IF b = "sndfile" THEN "default" ELSE "en-us"
DEF_DIR == "/tmp"
RATE_16K == 16000
MD5_LEN == 32
SUFFIX_ROOM == 6

(***************************************************************************)
(* C integers.  A long is 64 bits wide; it is held as its high and low     *)
(* 32-bit words, each read as a signed 32-bit number, so that the          *)
(* conversion (int) of a long is the low word.                             *)
(***************************************************************************)
Long(h, l) == [hi |-> h, lo |-> l]
LongOfInt(n) == Long(IF n < 0 THEN -1 ELSE 0, n)
LONG_MAX == Long(2147483647, -1)
IntOfLong(v) == v.lo

(***************************************************************************)
(* The text of a numeric option of espeak.conf.                            *)
(*   absent : the option is not in the file (ast_variable_retrieve: NULL)  *)
(*   int    : a decimal number that fits a long                            *)
(*   junk   : text with no leading digits                                  *)
(*   over   : a decimal number above LONG_MAX                              *)
(***************************************************************************)
Absent == [kind |-> "absent", hi |-> 0, lo |-> 0]
Junk == [kind |-> "junk", hi |-> 0, lo |-> 0]
Over == [kind |-> "over", hi |-> 0, lo |-> 0]
Num(n) == [kind |-> "int", hi |-> IF n < 0 THEN -1 ELSE 0, lo |-> n]
Wide(h, l) == [kind |-> "int", hi |-> h, lo |-> l]

ERANGE == 34

\* strtol(temp, NULL, 10): the value returned and whether it sets errno.
Strtol(t) ==
  CASE t.kind = "int" -> [val |-> Long(t.hi, t.lo), erange |-> FALSE]
    [] t.kind = "junk" -> [val |-> LongOfInt(0), erange |-> FALSE]
    [] t.kind = "over" -> [val |-> LONG_MAX, erange |-> TRUE]

\* One numeric option: "x = (int) strtol(temp, NULL, 10); if (errno == ERANGE)
\* x = DEF".  errno is only ever written by strtol, and only on a range error.
NumOption(t, def, en) ==
  IF t.kind = "absent"
    THEN [v |-> def, errno |-> en]
    ELSE LET s == Strtol(t)
             e == IF s.erange THEN ERANGE ELSE en
         IN [v |-> IF e = ERANGE THEN def ELSE IntOfLong(s.val), errno |-> e]

\* ast_true() of the text of usecache.
AstTrue(t) == IF t \in {"yes", "true", "y", "t", "1", "on"} THEN 1 ELSE 0

\* strlen() of the directory names the model uses.
StrLen(s) ==
  CASE s = "" -> 0
    [] s = "/tmp" -> 4
    [] s = "dir2009" -> 2009
    [] s = "dir2010" -> 2010
    [] s = "dir2011" -> 2011
    [] s = "dir4057" -> 4057
    [] s = "dir4058" -> 4058
    [] s = "dir4059" -> 4059

(***************************************************************************)
(* A configuration file as ast_config_load sees it.                        *)
(***************************************************************************)
ConfFile(st, uc, cd, sr, sp, wg, vol, pi, ci, vo) ==
  [status |-> st, usecache |-> uc, cachedir |-> cd, samplerate |-> sr,
   speed |-> sp, wordgap |-> wg, volume |-> vol, pitch |-> pi, capind |-> ci,
   voice |-> vo]
NoFile == ConfFile("missing", "NULL", "NULL", Absent, Absent, Absent, Absent, Absent, Absent, "NULL")
BadFile == ConfFile("invalid", "NULL", "NULL", Absent, Absent, Absent, Absent, Absent, Absent, "NULL")

\* The configuration the statics hold.
Config(uc, cd, tsr, sp, vol, wg, pi, ci, vo) ==
  [usecache |-> uc, cachedir |-> cd, target_sample_rate |-> tsr, speed |-> sp,
   volume |-> vol, wordgap |-> wg, pitch |-> pi, capind |-> ci, def_voice |-> vo]

Defaults(b) ==
  Config(0, DEF_DIR, DEF_RATE, DEF_SPEED, DEF_VOLUME, DEF_WORDGAP, DEF_PITCH,
         DEF_CAPIND, DEF_VOICE(b))

\* The closing check of read_config: any rate but 8000 and 16000 becomes 8000.
FallbackRate(r) == IF r /= DEF_RATE /\ r /= RATE_16K THEN DEF_RATE ELSE r

\* read_config: the statics and errno it leaves, and its return value, from
\* the file it loads and the errno it starts with.
ReadConfigBad(b, f, en) ==
  [conf |-> [Defaults(b) EXCEPT !.usecache = 1, !.cachedir = "NULL"], errno |-> en,
   ret |-> IF f.status = "ok" THEN 0 ELSE 0 - 1]

\* read_config up to the end of the option block: the defaults, then every
\* option the file holds, the sample rate as the file gives it.
ReadOptions(b, f, en) ==
  IF f.status /= "ok"
    THEN [conf |-> Defaults(b), errno |-> en, ret |-> 0]
    ELSE
      LET d == Defaults(b)
          uc == IF f.usecache /= "NULL" THEN AstTrue(f.usecache) ELSE d.usecache
          cd == IF f.cachedir /= "NULL" THEN f.cachedir ELSE d.cachedir
          sr == NumOption(f.samplerate, DEF_RATE, en)
          sp == NumOption(f.speed, DEF_SPEED, sr.errno)
          wg == NumOption(f.wordgap, DEF_WORDGAP, sp.errno)
          vol == NumOption(f.volume, DEF_VOLUME, wg.errno)
          pi == NumOption(f.pitch, DEF_PITCH, vol.errno)
          ci == IF b = "sndfile" THEN NumOption(f.capind, DEF_CAPIND, pi.errno)
                ELSE [v |-> DEF_CAPIND, errno |-> pi.errno]
          vo == IF f.voice /= "NULL" THEN f.voice ELSE d.def_voice
      IN [conf |-> Config(uc, cd, sr.v, sp.v, vol.v, wg.v, pi.v, ci.v, vo),
          errno |-> ci.errno, ret |-> 0]

ReadConfig(b, f, en) ==
  LET o == ReadOptions(b, f, en) IN
  [o EXCEPT !.conf.target_sample_rate = FallbackRate(@)]

(***************************************************************************)
(* Bounds of the model.                                                    *)
(***************************************************************************)
MaxFrames == 6
MaxChunks == 2
MaxSamples == 2

(***************************************************************************)
(* Inputs.                                                                 *)
(***************************************************************************)
Chans == {"c1", "c2"}
Languages == {"", "el"}
RawTexts == {"", "\"\"", "hello", "\"hello\""}
Datas == [text : RawTexts, language : Languages]
NativeRates == {RATE_16K, 22050}
TmpNames == {"espk_A", "espk_B"}
Formats == {"sln", "sln16"}
\* What ast_waitstream returns: 0 at the end of the audio, -1 on a hangup or
\* an error, the digit when an interrupt key ended the playback ('#').
InterruptKey == 35
WaitResults == {0, 0 - 1, InterruptKey}

\* The configuration files the requests run under.
OkFile(uc, cd, sr, vo) == ConfFile("ok", uc, cd, sr, Absent, Absent, Absent, Absent, Absent, vo)
MainFiles ==
  {NoFile,
   OkFile("yes", "NULL", Absent, "NULL"),
   OkFile("yes", "NULL", Num(RATE_16K), "el"),
   OkFile("yes", "dir4059", Absent, "NULL")}

\* The configuration files read_config is run on: every kind of samplerate
\* text, alone and next to a speed option.
RateTexts ==
  {Absent, Junk, Over, Num(0), Num(DEF_RATE), Num(11025), Num(RATE_16K),
   Num(0 - RATE_16K), Wide(1, RATE_16K), Wide(0 - 1, DEF_RATE)}
SpeedTexts == {Absent, Over, Num(175)}
CfgFiles ==
  {NoFile, BadFile} \cup
  {ConfFile("ok", "NULL", "NULL", sr, sp, Absent, Absent, Absent, Absent, "NULL") :
     sr \in RateTexts, sp \in SpeedTexts}

\* ast_strlen_zero(data): the application was called with no argument text.
DataEmpty(d) == d.text = "" /\ d.language = ""

\* ast_strip_quoted(args.text, "\"", "\""): a leading quote and the matching
\* trailing one are removed, when both are there.
StripQuotedBad(t) == t
StripQuoted(t) ==
  CASE t = "\"\"" -> ""
    [] t = "\"hello\"" -> "hello"
    [] OTHER -> t

\* ast_md5_hash(MD5_name, args.text): 32 hexadecimal digits.
Md5(t) ==
  CASE t = "hello" -> "5d41402abc4b2a76b9719d911017c592"
    [] OTHER -> "d41d8cd98f00b204e9800998ecf8427e"

\* The number of frames the engine renders for a text.
FramesOf(t) == IF t = "hello" THEN 441 ELSE 3

(***************************************************************************)
(* Files.  A path is a directory, a base name and a format extension ("" for*)
(* none); a file's content is the audio it holds.                          *)
(***************************************************************************)
Path(d, b, e) == [dir |-> d, base |-> b, ext |-> e]
NoPath == Path("", "", "")
Audio(t, v, r, n, whole) == [text |-> t, voice |-> v, rate |-> r, frames |-> n, whole |-> whole]
Empty == Audio("", "", 0, 0, TRUE)
WithExt(p, e) == Path(p.dir, p.base, e)
TmpPath(n) == Path("/tmp", n, "")
CachePath(dir, md5) == Path(dir, md5, "")

VARIABLES
  build,        \* which build of the application runs
  module,       \* "unloaded", "loaded", "declined" or "gone"; while a reload
                \* runs step by step, the point read_config has reached
  conf,         \* the statics read_config sets
  cfg,          \* static struct ast_config *cfg
  errno,        \* errno of the thread that loads the configuration
  engine,       \* the state of the TTS library: initialized, current voice
  native_rate,  \* the sample rate the TTS engine renders at
  files,        \* the file system: path -> content
  req,          \* per channel: the locals of espeak_exec and where it stands
  loaded        \* history: the file and errno the last read_config started from

vars == <<build, module, conf, cfg, errno, engine, native_rate, files, req, loaded>>

\* History of what a request read of the shared state: usecache (-1: not
\* read), cachedir, whether a cache entry was there at the existence check,
\* the target rate at the resample decision (for a request that plays a cache
\* entry: the target rate in force when it plays).
NotSeen == [usecache |-> 0 - 1, cachedir |-> "", entry |-> FALSE, rate |-> 0]

\* The locals of espeak_exec before the call, and the history kept per request
\* (synth_up: the engine was initialized when the request called espeak_Synth;
\* from: the configuration files whose loads gave the statics it has read).
\* History of synth_callback in a request: how many calls, the arguments and
\* the fwrite count of the last one, what it returned, and whether some chunk
\* was written short.
NoCall == [calls |-> 0, wav |-> FALSE, n |-> 0, w |-> 0, ret |-> 0, short |-> FALSE]

\* History of src_simple in a request: whether it was called, the number of
\* output frames it was asked for and the number it reported as generated.
NoConv == [called |-> FALSE, asked |-> 0, gen |-> 0]

IdleReq ==
  [pc |-> "idle", text |-> "", voice |-> "", writecache |-> 0,
   cachefile |-> NoPath, raw_name |-> "", format |-> "", sample_rate |-> 0,
   espk_error |-> "EE_OK", res |-> 0, ret |-> 0,
   ops |-> {}, hit |-> FALSE, saw |-> NotSeen, reloaded |-> FALSE, prior |-> {},
   synth_out |-> Empty, resampled |-> "", played |-> Empty, wrote |-> FALSE,
   clobbered |-> FALSE, synth_up |-> FALSE, from |-> {}, cb |-> NoCall,
   conv |-> NoConv, notext |-> FALSE]

Return(r, v) == [r EXCEPT !.pc = "done", !.ret = v]
\* History: the request reads a static of the configuration.
ReadsConf(r) == [r EXCEPT !.from = @ \cup {loaded.file}]
Did(r, op) == [r EXCEPT !.ops = @ \cup {op}]

ZeroConf == Config(0, "NULL", 0, 0, 0, 0, 0, 0, "NULL")

\* The process before the module is loaded.
Boot ==
  /\ build \in Builds
  /\ module = "unloaded"
  /\ conf = ZeroConf
  /\ cfg = "NULL"
  /\ engine = [up |-> FALSE, voice |-> "NULL"]
  /\ req = [c \in Chans |-> IdleReq]
  /\ loaded = [file |-> NoFile, errno |-> 0, ret |-> 0]

Init ==
  /\ Boot
  /\ errno = 0
  /\ native_rate \in NativeRates
  /\ files = <<>>

(***************************************************************************)
(* File helpers of the host (ast_fileexists, ast_filecopy, ast_filedelete, *)
(* ast_filerename, ast_streamfile): each works on "name.<format>" for the  *)
(* formats the host knows, never on the bare name.                         *)
(***************************************************************************)
Exists(p) == p \in DOMAIN files
FormatsAt(p) == {e \in Formats : Exists(WithExt(p, e))}
FileExists(p) == FormatsAt(p) /= {}
Remove(fs, ps) == [q \in DOMAIN fs \ ps |-> fs[q]]
Put(fs, p, a) == [q \in DOMAIN fs \cup {p} |-> IF q = p THEN a ELSE fs[q]]
Move(fs, from, to) ==
  IF from \in DOMAIN fs /\ to /= from THEN Put(Remove(fs, {from}), to, fs[from]) ELSE fs
DeleteAll(fs, p) == Remove(fs, {WithExt(p, e) : e \in Formats})

(***************************************************************************)
(* Module life cycle.                                                      *)
(***************************************************************************)
AllQuiet == \A c \in Chans : req[c].pc \in {"idle", "done"}

\* ast_config_load: NULL for a missing file, the invalid-file sentinel for an
\* invalid one, a fresh handle otherwise.
ConfigLoad(f) ==
  CASE f.status = "missing" -> "NULL"
    [] f.status = "invalid" -> "CONFIG_STATUS_FILEINVALID"
    [] OTHER -> "handle"

\* ast_config_destroy(cfg): a handle is freed, the pointer keeps its value.
Destroyed(h) == IF h = "handle" THEN "freed" ELSE h

\* espeak-ng build: "if (read_config(ESPEAK_CONFIG)) return
\* AST_MODULE_LOAD_DECLINE;".
Refused(rc) == rc.ret /= 0

\* The application is registered, and the host runs it on request, from
\* load_module to unload_module, a reload in progress included.
Registered == module \in {"loaded", "read_config:defaults", "read_config:options"}

\* load_module: read_config, then (espeak-ng build) the engine is initialized
\* and configured once for the whole module; the application is registered.
\* When a later step fails the espeak-ng build destroys the configuration and
\* declines the load.
load_module(F) ==
  /\ module = "unloaded"
  /\ \E f \in F, ok \in BOOLEAN :
       LET rc == ReadConfig(build, f, errno) IN
       /\ conf' = rc.conf
       /\ errno' = rc.errno
       /\ loaded' = [file |-> f, errno |-> errno, ret |-> rc.ret]
       /\ cfg' = IF build = "sndfile" \/ ok \/ Refused(rc)
                  THEN ConfigLoad(f) ELSE Destroyed(ConfigLoad(f))
       /\ module' = IF (build = "sndfile" \/ ~Refused(rc)) /\ ok THEN "loaded" ELSE "declined"
       /\ engine' = IF build = "espeakng" /\ ~Refused(rc) /\ ok
                      THEN [up |-> TRUE, voice |-> "NULL"] ELSE engine
  /\ UNCHANGED <<build, native_rate, files, req>>

\* reload_module: ast_config_destroy(cfg); read_config(ESPEAK_CONFIG).
reload_module(F) ==
  /\ module = "loaded"
  /\ \E f \in F :
       LET rc == ReadConfig(build, f, errno) IN
       /\ conf' = rc.conf
       /\ errno' = rc.errno
       /\ loaded' = [file |-> f, errno |-> errno, ret |-> rc.ret]
       /\ cfg' = ConfigLoad(f)
  /\ req' = [c \in Chans |->
               IF req[c].pc = "idle" THEN req[c] ELSE [req[c] EXCEPT !.reloaded = TRUE]]
  /\ UNCHANGED <<build, module, engine, native_rate, files>>

\* unload_module: (espeak-ng build) espeak_Terminate; ast_config_destroy(cfg);
\* the host unloads the module only when no call of the application runs.
unload_module ==
  /\ module = "loaded"
  /\ AllQuiet
  /\ module' = "gone"
  /\ cfg' = Destroyed(cfg)
  /\ engine' = IF build = "espeakng" THEN [engine EXCEPT !.up = FALSE] ELSE engine
  /\ UNCHANGED <<build, conf, errno, native_rate, files, req, loaded>>

\* reload_module step by step, as a thread that runs espeak_exec sees it:
\* ast_config_destroy(cfg), and read_config as far as the defaults and the
\* load of the file;
ReloadDefaults(F) ==
  /\ module = "loaded"
  /\ \E f \in F :
       /\ conf' = Defaults(build)
       /\ loaded' = [file |-> f, errno |-> errno, ret |-> 0]
       /\ cfg' = ConfigLoad(f)
  /\ module' = "read_config:defaults"
  /\ req' = [c \in Chans |->
               IF req[c].pc = "idle" THEN req[c] ELSE [req[c] EXCEPT !.reloaded = TRUE]]
  /\ UNCHANGED <<build, errno, engine, native_rate, files>>

\* the option block of read_config, which stores every value the file holds;
ReloadOptions ==
  /\ module = "read_config:defaults"
  /\ LET rc == ReadOptions(build, loaded.file, loaded.errno) IN
       /\ conf' = rc.conf
       /\ errno' = rc.errno
  /\ module' = "read_config:options"
  /\ UNCHANGED <<build, cfg, engine, native_rate, files, req, loaded>>

\* the closing check of the sample rate, and the return of reload_module.
ReloadRate ==
  /\ module = "read_config:options"
  /\ conf' = [conf EXCEPT !.target_sample_rate = FallbackRate(@)]
  /\ module' = "loaded"
  /\ UNCHANGED <<build, cfg, errno, engine, native_rate, files, req, loaded>>

(***************************************************************************)
(* espeak_exec, one step per call that reads or writes shared state.       *)
(***************************************************************************)
reqVarsOnly == <<build, module, conf, cfg, errno, engine, native_rate, files, loaded>>

\* History: the requests that had returned when request c started, after a
\* cache miss, a synthesis and a resample stage that succeeded, with no reload
\* since they started.
Summary(r) == [text |-> r.text, cachefile |-> r.cachefile, wrote |-> r.wrote]
Earlier(c) ==
  {Summary(req[o]) : o \in {x \in Chans \ {c} : /\ req[x].pc = "done"
                                                   /\ req[x].writecache = 1
                                                   /\ ~req[x].reloaded
                                                   /\ req[x].resampled \in {"skip", "ok"}}}

\* Entry: the argument checks, the choice of the voice, the quote stripping.
\* The channels are used in turn: the second is taken once the first is.
Exec(c) ==
  /\ Registered
  /\ req[c].pc = "idle"
  /\ c = "c2" => req["c1"].pc /= "idle"
  /\ \E d \in Datas :
       LET r0 == [IdleReq EXCEPT !.prior = Earlier(c),
                                 !.notext = d.text \in {"", "\"\""}]
           r1 == IF d.language /= "" THEN r0 ELSE ReadsConf(r0)
           voice == IF d.language /= "" THEN d.language ELSE conf.def_voice
           text == StripQuoted(d.text)
       IN req' = [req EXCEPT ![c] =
            IF DataEmpty(d) THEN Return(Did(r0, "noargs"), 0 - 1)
            ELSE IF text = "" THEN Return(r1, 0)
            ELSE [r1 EXCEPT !.pc = "cache", !.text = text, !.voice = voice]]
  /\ UNCHANGED reqVarsOnly

\* The length test that guards the composition of the cache path.
PathFitsBad(b, dir) == StrLen(dir) + MD5_LEN + SUFFIX_ROOM <= MAXLEN_ESPEAKNG + MAXLEN(b)
PathFits(b, dir) == StrLen(dir) + MD5_LEN + SUFFIX_ROOM <= MAXLEN(b)

\* The existence test that decides between a hit and a miss:
\* "ast_fileexists(cachefile, NULL, NULL) <= 0".
CacheMissBad(p) == TRUE
CacheMiss(p) == ~FileExists(p)

\* "Cache mechanism": the lookup.
\* snprintf(cachefile, sizeof(cachefile), "%s/%s", cachedir, MD5_name): the
\* directory, a slash and the digest, cut to what the MAXLEN bytes of
\* cachefile hold beside the terminating NUL.  A path that was cut ends
\* inside the digest or before it and names no entry ("(cut)").
Snprintf(b, dir, md5) ==
  IF StrLen(dir) + 1 + MD5_LEN + 1 <= MAXLEN(b)
    THEN CachePath(dir, md5)
    ELSE CachePath(dir, "(cut)")

CacheCheck(c) ==
  LET r == ReadsConf([req[c] EXCEPT !.saw.usecache = conf.usecache]) IN
  /\ req[c].pc = "cache"
  /\ req' = [req EXCEPT ![c] =
       IF conf.usecache /= 0
         THEN IF PathFits(build, conf.cachedir)
           THEN LET cf == Snprintf(build, conf.cachedir, Md5(r.text))
                    r1 == Did([r EXCEPT !.cachefile = cf, !.saw.cachedir = conf.cachedir,
                                        !.saw.entry = FileExists(cf)],
                              "fileexists")
                IN IF CacheMiss(cf)
                     THEN [r1 EXCEPT !.writecache = 1, !.pc = "engine"]
                     ELSE [r1 EXCEPT !.hit = TRUE, !.pc = "hitplay"]
           ELSE [r EXCEPT !.saw.cachedir = conf.cachedir, !.pc = "engine"]
         ELSE [r EXCEPT !.pc = "engine"]]
  /\ UNCHANGED reqVarsOnly

\* Cache hit: ast_answer, ast_streamfile(chan, cachefile, ...); when the
\* stream starts, ast_waitstream, ast_stopstream and return res; when it does
\* not, the code logs the error and goes on to the engine.
HitPlay(c) ==
  LET r == req[c]
      r1 == Did(Did(r, "answer"), "streamfile")
  IN
  /\ r.pc = "hitplay"
  /\ \/ req' = [req EXCEPT ![c] = [r1 EXCEPT !.res = 0 - 1, !.pc = "engine"]]
     \/ \E e \in FormatsAt(r.cachefile), w \in WaitResults :
          req' = [req EXCEPT ![c] =
            Return(Did(Did([r1 EXCEPT !.res = w, !.played = files[WithExt(r.cachefile, e)],
                                      !.saw.rate = conf.target_sample_rate],
                           "waitstream"), "stopstream"), w)]
  /\ UNCHANGED reqVarsOnly

\* The names mkstemp may return: any name no file has.  While no temporary
\* file of any request exists the names are interchangeable, and the model
\* takes one of them.
TmpInUse(n) == Exists(TmpPath(n)) \/ FileExists(TmpPath(n))
MkstempNames ==
  IF \A n \in TmpNames : ~TmpInUse(n)
    THEN {"espk_A"}
    ELSE {n \in TmpNames : ~Exists(TmpPath(n))}

\* "Invoke eSpeak" (sndfile build: espeak_Initialize, espeak_SetSynthCallback,
\* espeak_SetVoiceByName, espeak_SetParameter) or "Set voice - language"
\* (espeak-ng build: espeak_SetVoiceByName); then mkstemp(raw_name), which
\* creates a file under a name no file has, and fdopen.
Engine(c) ==
  LET r == req[c]
      r1 == Did(r, "engine")
      r2 == [(IF build = "sndfile" THEN ReadsConf(r1) ELSE r1) EXCEPT
               !.sample_rate = IF build = "sndfile" THEN native_rate ELSE @]
  IN
  /\ r.pc = "engine"
  /\ \/ /\ req' = [req EXCEPT ![c] = Return(r1, 0 - 1)]
        /\ UNCHANGED <<engine, files>>
     \/ /\ engine' = [up |-> TRUE, voice |-> r.voice]
        /\ \/ /\ req' = [req EXCEPT ![c] = Return(Did(r2, "mkstemp"), 0 - 1)]
              /\ files' = files
           \/ \E n \in MkstempNames, opened \in BOOLEAN :
                /\ files' = Put(files, TmpPath(n), Empty)
                /\ req' = [req EXCEPT ![c] =
                     LET r3 == Did([r2 EXCEPT !.raw_name = n], "mkstemp") IN
                     IF opened THEN [r3 EXCEPT !.pc = "synth"] ELSE Return(r3, 0 - 1)]
  /\ UNCHANGED <<build, module, conf, cfg, errno, native_rate, loaded>>

\* espeak_Synth writes the audio through synth_callback, in the voice the
\* engine holds (the engine is one per process: the voice is the one set last,
\* by whichever request; on an engine that another request has terminated the
\* call fails or renders with what the library still holds); (sndfile build) espeak_Terminate; fclose; on an error the
\* file is deleted (sndfile build: ast_filedelete, espeak-ng build: unlink)
\* and -1 returned.
Synth(c) ==
  LET r == req[c]
      raw == TmpPath(r.raw_name)
  IN
  /\ r.pc = "synth"
  /\ \E ok \in BOOLEAN :
       LET out == Audio(r.text, engine.voice, native_rate,
                        IF ok THEN FramesOf(r.text) ELSE 0, ok)
           written == IF Exists(raw) THEN Put(files, raw, out) ELSE files
           r1 == Did([r EXCEPT !.synth_out = out, !.synth_up = engine.up,
                               !.espk_error = IF ok THEN "EE_OK" ELSE "EE_INTERNAL_ERROR"],
                     "synth")
       IN /\ files' = IF ok THEN written
                      ELSE IF build = "sndfile" THEN DeleteAll(written, raw)
                      ELSE Remove(written, {raw})
          /\ req' = [req EXCEPT ![c] =
               IF ok THEN [r1 EXCEPT !.pc = "resample"] ELSE Return(r1, 0 - 1)]
  /\ engine' = IF build = "sndfile" THEN [engine EXCEPT !.up = FALSE] ELSE engine
  /\ UNCHANGED <<build, module, conf, cfg, errno, native_rate, loaded>>

\* synth_callback(wav, numsamples, events), with written the count fwrite
\* returns: "if (wav) { if (fwrite(...)) return 0; } return 1;".
SynthCallback(wav, numsamples, written) ==
  IF wav
    THEN IF written /= 0 THEN 0 ELSE 1
    ELSE 1

\* espeak_Synth chunk by chunk.  The library hands synth_callback a buffer of
\* numsamples samples (none when it only reports events), and a null buffer
\* when the text is finished; fwrite appends what it can to the temporary
\* file and returns the number of samples written.  After a call that
\* returned 1 the library makes no further call.
SynthChunk(c) ==
  LET r == req[c]
      raw == TmpPath(r.raw_name)
  IN
  /\ r.pc = "synth"
  /\ Exists(raw)
  /\ r.cb.calls < MaxChunks
  /\ r.cb.calls > 0 => r.cb.ret = 0
  /\ \E wav \in BOOLEAN, numsamples \in 0 .. MaxSamples :
       \E written \in (IF wav THEN 0 .. numsamples ELSE {0}) :
         /\ files' = Put(files, raw,
                         Audio(r.text, engine.voice, native_rate,
                               files[raw].frames + written, TRUE))
         /\ req' = [req EXCEPT ![c] =
              [r EXCEPT !.cb = [calls |-> @.calls + 1, wav |-> wav, n |-> numsamples,
                                w |-> written,
                                ret |-> SynthCallback(wav, numsamples, written),
                                short |-> @.short \/ (wav /\ written < numsamples)]]]
  /\ UNCHANGED <<build, module, conf, cfg, errno, engine, native_rate, loaded>>

\* The return of espeak_Synth after its calls of synth_callback, and what
\* follows it: (sndfile build) espeak_Terminate; fclose; on an error the file
\* is deleted and -1 returned.  The library returns once a call of
\* synth_callback has returned 1, with EE_OK whether the call was the closing
\* one or stopped the synthesis; it returns an error at any point.
SynthEnd(c) ==
  LET r == req[c]
      raw == TmpPath(r.raw_name)
  IN
  /\ r.pc = "synth"
  /\ Exists(raw)
  /\ \E err \in {"EE_OK", "EE_INTERNAL_ERROR"} :
       LET ok == err = "EE_OK"
           out == [files[raw] EXCEPT !.whole = ok /\ ~r.cb.wav /\ ~r.cb.short]
           written == Put(files, raw, out)
           r1 == Did([r EXCEPT !.synth_out = out, !.synth_up = engine.up,
                               !.espk_error = err], "synth")
       IN /\ ok => (r.cb.calls > 0 /\ r.cb.ret = 1)
          /\ files' = IF ok THEN written
                      ELSE IF build = "sndfile" THEN DeleteAll(written, raw)
                      ELSE Remove(written, {raw})
          /\ req' = [req EXCEPT ![c] =
               IF ok THEN [r1 EXCEPT !.pc = "resample"] ELSE Return(r1, 0 - 1)]
  /\ engine' = IF build = "sndfile" THEN [engine EXCEPT !.up = FALSE] ELSE engine
  /\ UNCHANGED <<build, module, conf, cfg, errno, native_rate, loaded>>

(***************************************************************************)
(* Resampling.                                                             *)
(***************************************************************************)
RECURSIVE Gcd(_, _)
Gcd(a, b) == IF b = 0 THEN a ELSE Gcd(b, a % b)

RECURSIVE IsPow2(_)
IsPow2(n) == IF n = 1 THEN TRUE ELSE IF n % 2 = 1 THEN FALSE ELSE IsPow2(n \div 2)

\* sndfile build: dst_frames = src_info.frames * (sf_count_t) target_sample_rate
\*                             / (sf_count_t) sample_rate, in 64-bit integers.
DstFrames(n, rt, rs) == (n * rt) \div rs

\* espeak-ng build: out_frames = (long)((double) in_frames * ratio) with
\* ratio = (double) target_sample_rate / (double) sample_rate.  The quotient is
\* rounded to a double unless it is a dyadic fraction; the product of a
\* rounded ratio lies within rounding of n * rt / rs, far less than 1 / rs
\* away from it, so the truncation can only differ from the floor where
\* n * rt / rs is a whole number: there the product may fall just below it.
OutFrames(n, rt, rs) ==
  LET q == (n * rt) \div rs
      exact == IsPow2(rs \div Gcd(rt, rs))
  IN IF ~exact /\ (n * rt) % rs = 0 /\ q > 0 THEN {q - 1, q} ELSE {q}

\* "if (sample_rate != target_sample_rate)"
NeedsResampleBad(rs, rt) == rs /= DEF_RATE
NeedsResample(rs, rt) == rs /= rt

\* How the resample stage can end.  The sndfile build does not look at the
\* results of the truncation and of the write-back (sf_command,
\* sf_writef_float, sf_write_sync); raw_resample reports both kinds of
\* write-back error.
RsOutcomes(b) ==
  IF b = "sndfile" THEN {"ok", "open", "alloc", "src", "write"}
  ELSE {"ok", "open", "alloc", "src", "write", "reopen"}
\* History: how the stage ended: "ok", "write" (the write-back failed after the
\* file was truncated) or "fail" (any other error).
RsKind(o) == IF o \in {"ok", "write"} THEN o ELSE "fail"

\* The number of frames the stage asks the converter for and writes back.
RsFramesBad(b, n, rt, rs) == {(n * rs) \div rt}
RsFrames(b, n, rt, rs) == IF b = "sndfile" THEN {DstFrames(n, rt, rs)} ELSE OutFrames(n, rt, rs)

\* "Resample sound file"
Resample(c) ==
  LET r == req[c]
      raw == TmpPath(r.raw_name)
      rs == IF build = "sndfile" THEN r.sample_rate ELSE native_rate
      rt == conf.target_sample_rate
      in == files[raw]
      r0 == ReadsConf([r EXCEPT !.sample_rate = rs, !.saw.rate = rt])
  IN
  /\ r.pc = "resample"
  /\ Exists(raw)
  /\ IF ~NeedsResample(rs, rt)
       THEN /\ req' = [req EXCEPT ![c] = [r0 EXCEPT !.resampled = "skip", !.pc = "names"]]
            /\ files' = files
       ELSE \E o \in RsOutcomes(build), n \in RsFrames(build, in.frames, rt, rs) :
              LET r1 == Did([r0 EXCEPT !.resampled = RsKind(o)], "resample")
                  done == Audio(in.text, in.voice, rt, n, TRUE)
                  torn == Audio(in.text, in.voice, rt, 0, FALSE)
              IN
              IF build = "sndfile"
                THEN /\ files' = CASE o = "ok" -> Put(files, raw, done)
                                   [] o = "write" -> Put(files, raw, torn)
                                   [] o \in {"open", "src"} -> DeleteAll(files, raw)
                                   [] OTHER -> files
                     /\ req' = [req EXCEPT ![c] =
                          IF o \in {"ok", "write"} THEN [r1 EXCEPT !.pc = "names"]
                          ELSE Return(r1, 0 - 1)]
                ELSE /\ files' = CASE o = "ok" -> Put(files, raw, done)
                                   [] o = "write" -> Put(files, raw, torn)
                                   [] OTHER -> files
                     /\ req' = [req EXCEPT ![c] =
                          IF o = "ok" THEN [r1 EXCEPT !.res = 0, !.pc = "names"]
                          ELSE Return([r1 EXCEPT !.res = 0 - 1], 0 - 1)]
  /\ UNCHANGED <<build, module, conf, cfg, errno, engine, native_rate, loaded>>

\* The resample stage in two steps.  First, up to the return of src_simple:
\* the file is opened and read, the buffers are allocated, and the converter
\* is asked for dst_frames (out_frames) frames; when it succeeds it reports in
\* output_frames_gen how many frames it has put into the output buffer, any
\* number from 0 to the number asked for.
Convert(c) ==
  LET r == req[c]
      raw == TmpPath(r.raw_name)
      rs == IF build = "sndfile" THEN r.sample_rate ELSE native_rate
      rt == conf.target_sample_rate
      in == files[raw]
      r0 == ReadsConf([r EXCEPT !.sample_rate = rs, !.saw.rate = rt])
  IN
  /\ r.pc = "resample"
  /\ Exists(raw)
  /\ IF ~NeedsResample(rs, rt)
       THEN /\ req' = [req EXCEPT ![c] = [r0 EXCEPT !.resampled = "skip", !.pc = "names"]]
            /\ files' = files
       ELSE \E o \in {"ok", "open", "alloc", "src"}, n \in RsFrames(build, in.frames, rt, rs) :
              \E gen \in 0 .. n :
                LET r1 == Did(r0, "resample")
                    r2 == [r1 EXCEPT !.resampled = "fail"]
                IN
                /\ files' = IF build = "sndfile" /\ o \in {"open", "src"}
                              THEN DeleteAll(files, raw) ELSE files
                /\ req' = [req EXCEPT ![c] =
                     IF o = "ok"
                       THEN [r1 EXCEPT !.pc = "writeback",
                               !.conv = [called |-> TRUE, asked |-> n, gen |-> gen]]
                     ELSE IF build = "sndfile" THEN Return(r2, 0 - 1)
                     ELSE Return([r2 EXCEPT !.res = 0 - 1], 0 - 1)]
  /\ UNCHANGED <<build, module, conf, cfg, errno, engine, native_rate, loaded>>

\* Second, the write-back: the file is truncated (sndfile build) or opened
\* anew with "w+" (espeak-ng build) and the number of frames that was asked
\* for is written from the output buffer.
WriteBack(c) ==
  LET r == req[c]
      raw == TmpPath(r.raw_name)
      in == files[raw]
      done == Audio(in.text, in.voice, r.saw.rate, r.conv.asked, TRUE)
      torn == Audio(in.text, in.voice, r.saw.rate, 0, FALSE)
  IN
  /\ r.pc = "writeback"
  /\ Exists(raw)
  /\ \E o \in RsOutcomes(build) \ {"open", "alloc", "src"} :
       LET r1 == [r EXCEPT !.resampled = RsKind(o)] IN
       /\ files' = CASE o = "ok" -> Put(files, raw, done)
                      [] o = "write" -> Put(files, raw, torn)
                      [] OTHER -> files
       /\ req' = [req EXCEPT ![c] =
            IF build = "sndfile" THEN [r1 EXCEPT !.pc = "names"]
            ELSE IF o = "ok" THEN [r1 EXCEPT !.res = 0, !.pc = "names"]
            ELSE Return([r1 EXCEPT !.res = 0 - 1], 0 - 1)]
  /\ UNCHANGED <<build, module, conf, cfg, errno, engine, native_rate, loaded>>

\* "Save file to cache if set": "if (writecache)".
WriteCacheBad(w) == TRUE
WriteCache(w) == w /= 0

\* "Create filenames": the format follows the target rate; the audio file is
\* renamed to raw_name.<format>.  In the sndfile build slin_name is set only
\* for the rates 8000 and 16000: for another rate the rename reads an
\* uninitialized name, and moves the file somewhere or fails ("").
FormatsFor(b, rt) ==
  IF b = "sndfile"
    THEN CASE rt = DEF_RATE -> {"sln"} [] rt = RATE_16K -> {"sln16"}
           [] OTHER -> Formats \cup {""}
    ELSE IF rt = RATE_16K THEN {"sln16"} ELSE {"sln"}

Names(c) ==
  LET r == req[c]
      raw == TmpPath(r.raw_name)
  IN
  /\ r.pc = "names"
  /\ \E e \in FormatsFor(build, conf.target_sample_rate) :
       /\ files' = Move(files, raw, WithExt(raw, e))
       /\ req' = [req EXCEPT ![c] =
            [ReadsConf(r) EXCEPT !.format = e,
                      !.pc = IF build = "sndfile" /\ WriteCache(r.writecache) THEN "copy" ELSE "play"]]
  /\ UNCHANGED <<build, module, conf, cfg, errno, engine, native_rate, loaded>>

\* sndfile build, "Save file to cache if set": ast_filecopy(raw_name,
\* cachefile, NULL) copies raw_name.<format> to cachefile.<format> for every
\* format a file is there for: the target is opened (created or truncated),
\* then filled.  The result of the call is not looked at.
Copy(c) ==
  LET r == Did(req[c], "cachewrite")
      raw == TmpPath(r.raw_name)
      E == FormatsAt(raw)
      to == {WithExt(r.cachefile, e) : e \in E}
  IN
  /\ r.pc = "copy"
  /\ \E ok \in BOOLEAN :
       IF ok /\ E /= {}
         THEN /\ files' = [q \in DOMAIN files \cup to |->
                             IF q \in to THEN Audio("", "", 0, 0, FALSE) ELSE files[q]]
              /\ req' = [req EXCEPT ![c] =
                   [r EXCEPT !.pc = "copydata", !.clobbered = \E q \in to : Exists(q)]]
         ELSE /\ files' = files
              /\ req' = [req EXCEPT ![c] = [r EXCEPT !.pc = "play"]]
  /\ UNCHANGED <<build, module, conf, cfg, errno, engine, native_rate, loaded>>

CopyData(c) ==
  LET r == req[c]
      raw == TmpPath(r.raw_name)
      E == FormatsAt(raw)
      to == {WithExt(r.cachefile, e) : e \in E}
  IN
  /\ r.pc = "copydata"
  /\ files' = [q \in DOMAIN files \cup to |->
                 IF q \in to THEN files[WithExt(raw, q.ext)] ELSE files[q]]
  /\ req' = [req EXCEPT ![c] = [r EXCEPT !.pc = "play", !.wrote = E /= {}]]
  /\ UNCHANGED <<build, module, conf, cfg, errno, engine, native_rate, loaded>>

\* ast_answer; ast_streamfile(chan, raw_name, ...): the host opens
\* raw_name.<format> for a format it finds a file for; when the stream
\* starts, ast_waitstream(chan, args.interrupt) and ast_stopstream(chan).
Play(c) ==
  LET r == req[c]
      raw == TmpPath(r.raw_name)
      r1 == Did(Did(r, "answer"), "streamfile")
  IN
  /\ r.pc = "play"
  /\ \/ req' = [req EXCEPT ![c] = [r1 EXCEPT !.res = 0 - 1, !.pc = "cleanup"]]
     \/ \E e \in FormatsAt(raw), w \in WaitResults :
          req' = [req EXCEPT ![c] =
            [Did(Did(r1, "waitstream"), "stopstream") EXCEPT !.res = w, !.pc = "cleanup",
               !.played = files[WithExt(raw, e)]]]
  /\ UNCHANGED reqVarsOnly

\* "return res;" at the end of espeak_exec: the result of the playback; the
\* result of the cache write (failed: it was called and wrote no entry) is not
\* looked at.
ExecResultBad(res, failed) == IF failed THEN 0 - 1 ELSE res
ExecResult(res, failed) == res

\* The end of espeak_exec.  sndfile build: ast_filedelete(raw_name, NULL).
\* espeak-ng build, "Save file to cache if set": ast_filerename(raw_name,
\* cachefile, format), else unlink(slin_name).
Cleanup(c) ==
  LET r == req[c]
      raw == TmpPath(r.raw_name)
      slin == WithExt(raw, r.format)
      to == WithExt(r.cachefile, r.format)
  IN
  /\ r.pc = "cleanup"
  /\ \E ok \in BOOLEAN :
       LET moved == build = "espeakng" /\ WriteCache(r.writecache) /\ ok /\ Exists(slin)
           r1 == IF build = "espeakng" /\ WriteCache(r.writecache)
                   THEN Did([r EXCEPT !.wrote = moved, !.clobbered = moved /\ Exists(to)],
                            "cachewrite")
                   ELSE r
       IN /\ files' = IF build = "sndfile" THEN DeleteAll(files, raw)
                      ELSE IF WriteCache(r.writecache)
                        THEN IF moved THEN Move(files, slin, to) ELSE files
                        ELSE Remove(files, {slin})
          /\ req' = [req EXCEPT ![c] =
               Return(r1, ExecResult(r.res, "cachewrite" \in r1.ops /\ ~r1.wrote))]
  /\ UNCHANGED <<build, module, conf, cfg, errno, engine, native_rate, loaded>>

Step(c) ==
  \/ Exec(c) \/ CacheCheck(c) \/ HitPlay(c) \/ Engine(c)
  \/ Synth(c) \/ Resample(c) \/ Names(c) \/ Copy(c) \/ CopyData(c) \/ Play(c)
  \/ Cleanup(c)

(***************************************************************************)
(* Spec: the application under its host, with requests on two channels that*)
(* run concurrently with each other; the configuration is reloaded between *)
(* requests.                                                               *)
(***************************************************************************)
Between == AllQuiet /\ \E c \in Chans : req[c].pc = "idle"

Next ==
  \/ load_module(MainFiles)
  \/ (Between /\ reload_module(MainFiles))
  \/ \E c \in Chans : Step(c)

Spec == Init /\ [][Next]_vars

(***************************************************************************)
(* SpecSolo: one request, with reloads at any point of it, over a cache    *)
(* that is empty or holds an entry of an earlier run of the server.        *)
(***************************************************************************)
Stored(b) ==
  Put(<<>>, WithExt(CachePath(DEF_DIR, Md5("hello")), "sln"),
      Audio("hello", DEF_VOICE(b), DEF_RATE, DstFrames(FramesOf("hello"), DEF_RATE, 22050), TRUE))

InitSolo ==
  /\ Boot
  /\ errno = 0
  /\ native_rate \in NativeRates
  /\ files \in {<<>>, Stored(build)}

NextSolo ==
  \/ load_module(MainFiles)
  \/ reload_module(MainFiles)
  \/ unload_module
  \/ Step("c1")

SpecSolo == InitSolo /\ [][NextSolo]_vars

(***************************************************************************)
(* SpecCfg: the module life cycle over every kind of configuration file,   *)
(* started with errno clear or left at ERANGE by an earlier call.          *)
(***************************************************************************)
InitCfg ==
  /\ Boot
  /\ errno \in {0, ERANGE}
  /\ native_rate = 22050
  /\ files = <<>>

NextCfg ==
  \/ load_module(CfgFiles)
  \/ reload_module(CfgFiles)
  \/ unload_module

SpecCfg == InitCfg /\ [][NextCfg]_vars

(***************************************************************************)
(* SpecReload: one request, with reloads that start before it returns and  *)
(* run step by step beside it.                                             *)
(***************************************************************************)
ReloadFiles ==
  {NoFile,
   OkFile("yes", "NULL", Num(11025), "NULL"),
   OkFile("NULL", "NULL", Num(22050), "NULL")}

NextReload ==
  \/ load_module(ReloadFiles)
  \/ (req["c1"].pc /= "done" /\ ReloadDefaults(ReloadFiles))
  \/ ReloadOptions
  \/ ReloadRate
  \/ Step("c1")

SpecReload == InitSolo /\ [][NextReload]_vars

(***************************************************************************)
(* SpecSynth: one request, with the synthesis followed chunk by chunk.     *)
(***************************************************************************)
SynthFiles == {NoFile, OkFile("yes", "NULL", Num(RATE_16K), "NULL")}

NextSynth ==
  \/ load_module(SynthFiles)
  \/ Exec("c1") \/ CacheCheck("c1") \/ HitPlay("c1") \/ Engine("c1")
  \/ SynthChunk("c1") \/ SynthEnd("c1")
  \/ Resample("c1") \/ Names("c1") \/ Copy("c1") \/ CopyData("c1") \/ Play("c1")
  \/ Cleanup("c1")

SpecSynth == InitSolo /\ [][NextSynth]_vars

(***************************************************************************)
(* SpecRs: the resample stage on its own: a request that has synthesized   *)
(* N frames at the native rate Rs, under a configuration with target Rt.   *)
(***************************************************************************)
RsRates == {DEF_RATE, 11025, RATE_16K, 22050, 44100, 48000}
FrameCounts == (0 .. MaxFrames) \cup {FramesOf("hello"), 2 * FramesOf("hello")}
RsFiles == {NoFile, OkFile("NULL", "NULL", Num(RATE_16K), "NULL")}

InitRs ==
  /\ build \in Builds
  /\ module = "loaded"
  /\ errno = 0
  /\ native_rate \in RsRates
  /\ \E f \in RsFiles :
       /\ conf = ReadConfig(build, f, 0).conf
       /\ cfg = ConfigLoad(f)
       /\ loaded = [file |-> f, errno |-> 0, ret |-> 0]
  /\ engine = [up |-> build = "espeakng", voice |-> DEF_VOICE(build)]
  /\ \E n \in FrameCounts :
       LET out == Audio("hello", DEF_VOICE(build), native_rate, n, TRUE) IN
       /\ files = Put(<<>>, TmpPath("espk_A"), out)
       /\ req = [c \in Chans |->
            IF c = "c1"
              THEN [IdleReq EXCEPT !.pc = "resample", !.text = "hello",
                      !.voice = DEF_VOICE(build), !.raw_name = "espk_A",
                      !.sample_rate = IF build = "sndfile" THEN native_rate ELSE 0,
                      !.ops = {"engine", "mkstemp", "synth"},
                      !.saw.usecache = 0, !.synth_out = out]
              ELSE IdleReq]

NextRs == Resample("c1")

SpecRs == InitRs /\ [][NextRs]_vars

(***************************************************************************)
(* SpecPath: the start of one request, up to the cache lookup, over cache  *)
(* directories with names of every length about the limit of either build. *)
(***************************************************************************)
PathDirs == {"dir2009", "dir2010", "dir2011", "dir4057", "dir4058", "dir4059"}
PathFiles == {NoFile} \cup {OkFile("yes", d, Absent, "NULL") : d \in PathDirs}

NextPath == load_module(PathFiles) \/ Exec("c1") \/ CacheCheck("c1")

SpecPath == InitSolo /\ [][NextPath]_vars

(***************************************************************************)
(* SpecConv: the resample stage in two steps, with the number of frames    *)
(* the converter reports.                                                  *)
(***************************************************************************)
NextConv == Convert("c1") \/ WriteBack("c1")

SpecConv == InitRs /\ [][NextConv]_vars

(***************************************************************************)
(* Properties.                                                             *)
(***************************************************************************)

\* C1 (as stated): a request for a text whose cache entry an earlier request
\* wrote, under the same configuration, computes the same cache path, hits,
\* plays the entry and does not invoke the engine.
C1_SecondRequestPlaysEntry ==
  \A c \in Chans :
    LET r == req[c] IN
    \A p \in r.prior :
      (p.text = r.text /\ p.wrote /\ r.pc \notin {"idle", "cache"}) =>
        /\ r.cachefile = p.cachefile
        /\ r.hit
        /\ "engine" \notin r.ops
        /\ r.pc = "done" => r.played /= Empty

\* C2 (as stated): a request whose lookup was a hit goes from the hit to the
\* playback of the entry and returns; it never invokes the engine, never
\* creates a temporary file and never writes the cache.
C2_HitNeverSynthesizes ==
  \A c \in Chans :
    req[c].hit =>
      /\ req[c].pc \in {"hitplay", "done"}
      /\ req[c].ops \cap {"engine", "mkstemp", "synth", "cachewrite"} = {}

\* C3 (as stated): a request whose synthesis the engine reported as failed has
\* returned -1, has performed no playback operation (answer, stream_file,
\* wait_stream) and has written nothing to the cache.
C3_SynthFailureSilent ==
  \A c \in Chans :
    req[c].espk_error /= "EE_OK" =>
      /\ req[c].pc = "done"
      /\ req[c].ret = 0 - 1
      /\ req[c].ops \cap {"answer", "streamfile", "waitstream", "cachewrite"} = {}

\* C4 (as stated): a request whose resample stage failed (open, allocation,
\* interpolation or write-back) has returned -1, has played nothing and has
\* written nothing to the cache.
C4_ResampleFailureFatal ==
  \A c \in Chans :
    req[c].resampled \in {"fail", "write"} =>
      /\ req[c].pc = "done"
      /\ req[c].ret = 0 - 1
      /\ req[c].played = Empty
      /\ "cachewrite" \notin req[c].ops

\* C5 (as stated): after read_config the target rate is 8000 or 16000, it is
\* 16000 only if the file configures the value 16000, every other configured
\* value gives 8000, and read_config returns 0.
C5_RateFollowsFile ==
  module /= "unloaded" =>
    LET f == loaded.file
        Is(n) == f.status = "ok" /\ f.samplerate.kind = "int"
                 /\ f.samplerate.hi = 0 /\ f.samplerate.lo = n
    IN /\ conf.target_sample_rate \in {8000, 16000}
       /\ conf.target_sample_rate = 16000 => Is(16000)
       /\ (~Is(8000) /\ ~Is(16000)) => conf.target_sample_rate = 8000
       /\ loaded.ret = 0

\* C6: after a resample stage that succeeded, from N frames at the native
\* rate Rs to the target rate Rt in {8000, 16000}, the request's audio file is
\* at rate Rt and holds floor(N * Rt / Rs) frames, give or take one.
C6_ResampledFrames ==
  \A c \in Chans :
    LET r == req[c]
        raw == TmpPath(r.raw_name)
        want == (r.synth_out.frames * r.saw.rate) \div native_rate
    IN (r.pc = "names" /\ r.resampled = "ok") =>
         /\ r.saw.rate \in {8000, 16000}
         /\ native_rate /= r.saw.rate
         /\ Exists(raw)
         /\ files[raw].rate = r.saw.rate
         /\ files[raw].frames \in (want - 1) .. (want + 1)

\* C6, witness: a stage that succeeded and left one frame less than the
\* floor (the tolerance is used).
C6_OneFrameShort ==
  \E c \in Chans :
    /\ req[c].pc = "names"
    /\ req[c].resampled = "ok"
    /\ req[c].synth_out.frames > 0
    /\ files[TmpPath(req[c].raw_name)].frames
         = ((req[c].synth_out.frames * req[c].saw.rate) \div native_rate) - 1

\* C7: a request enters the resample stage if and only if the native rate of
\* the engine differs from the target rate it reads; when the rates are equal,
\* what it plays, and what it writes to the cache, is the audio it
\* synthesized, unchanged.  (Stated of a request's own pipeline, SpecSolo:
\* what a second request does to the same files is the matter of C8, C9
\* and C15.)
C7_ResampleIffRatesDiffer ==
  \A c \in Chans :
    LET r == req[c]
        entry == WithExt(r.cachefile, r.format)
    IN /\ r.resampled /= "" =>
            (("resample" \in r.ops) <=> (native_rate /= r.saw.rate))
       /\ r.resampled /= "" => ((r.resampled = "skip") <=> (native_rate = r.saw.rate))
       /\ (r.resampled = "skip" /\ r.played /= Empty) => r.played = r.synth_out
       /\ (r.resampled = "skip" /\ r.wrote) => (Exists(entry) /\ files[entry] = r.synth_out)

\* C7, witness: a request that skipped the stage, wrote the cache and played
\* the synthesized audio.
C7_PassThroughPlayed ==
  \E c \in Chans :
    /\ req[c].pc = "done"
    /\ req[c].resampled = "skip"
    /\ req[c].wrote
    /\ "waitstream" \in req[c].ops
    /\ req[c].played = req[c].synth_out
    /\ native_rate = conf.target_sample_rate

\* C8 (as stated): no cache write lands on a path at which an entry exists at
\* the moment of the write.
C8_EntriesImmutable ==
  \A c \in Chans : ~req[c].clobbered

\* C8 (amended): a request writes the cache only after its own existence check
\* found no entry at the path; a write lands on an existing entry only when
\* that entry was created after the check by another request whose own check
\* found no entry either.
C8_WritesFollowMiss ==
  \A c \in Chans :
    LET r == req[c] IN
    /\ "cachewrite" \in r.ops => ("fileexists" \in r.ops /\ ~r.saw.entry)
    /\ r.clobbered =>
         \E o \in Chans \ {c} :
           /\ req[o].cachefile = r.cachefile
           /\ "cachewrite" \in req[o].ops
           /\ ~req[o].saw.entry

\* C8, witness: a request whose check found no entry has overwritten the entry
\* that the other request wrote in between.
C8_RaceOverwrites ==
  \E c \in Chans :
    /\ req[c].pc = "done"
    /\ req[c].clobbered
    /\ req[c].wrote
    /\ ~req[c].saw.entry

\* C9 (as stated): when two requests for the same text have both missed, both
\* written the same cache path and both returned, the entry holds what either
\* of them alone would have written: the text in that request's voice at the
\* target rate.
C9_LastWriterAsAlone ==
  \A a, b \in Chans :
    LET ra == req[a]
        rb == req[b]
    IN (/\ a /= b
        /\ ra.pc = "done" /\ rb.pc = "done"
        /\ ra.text = rb.text /\ ra.cachefile = rb.cachefile
        /\ ~ra.saw.entry /\ ~rb.saw.entry
        /\ ra.wrote /\ rb.wrote) =>
         \A e \in FormatsAt(ra.cachefile) :
           LET f == files[WithExt(ra.cachefile, e)] IN
           /\ f.text = ra.text
           /\ f.rate = ra.saw.rate
           /\ f.voice = ra.voice
           /\ f.voice = rb.voice

\* C10: a request that read usecache as off, or a cache directory for which
\* strlen(cachedir) + 32 + 6 exceeds MAXLEN, makes no existence check and no
\* cache write, and goes on to the engine as after a miss.
C10_NoCacheWhenOffOrTooLong ==
  \A c \in Chans :
    LET r == req[c] IN
    (r.saw.usecache = 0
       \/ (r.saw.usecache > 0 /\ StrLen(r.saw.cachedir) + 32 + 6 > MAXLEN(build))) =>
      /\ r.ops \cap {"fileexists", "cachewrite"} = {}
      /\ r.writecache = 0
      /\ ~r.hit
      /\ r.cachefile = NoPath
      /\ r.pc = "engine" \/ "engine" \in r.ops

\* C10, witness: with the cache on and the directory too long, a request has
\* synthesized, played and returned 0.
C10_TooLongStillPlays ==
  \E c \in Chans :
    /\ req[c].pc = "done"
    /\ req[c].ret = 0
    /\ req[c].saw.usecache > 0
    /\ StrLen(req[c].saw.cachedir) + 32 + 6 > MAXLEN(build)
    /\ {"synth", "waitstream"} \subseteq req[c].ops

\* C11: a request that has written to the cache (a copy or a rename into the
\* cache directory was called) read usecache as on at its start, read a cache
\* directory for which strlen(cachedir) + 32 + 6 is within MAXLEN, and made an
\* existence check for its path that reported no file; a request for which one
\* of these does not hold has made no cache write.
C11_WriteOnlyAfterOwnMiss ==
  \A c \in Chans :
    LET r == req[c] IN
    ("cachewrite" \in r.ops \/ r.wrote \/ r.pc \in {"copy", "copydata"}) =>
      /\ r.saw.usecache > 0
      /\ StrLen(r.saw.cachedir) + 32 + 6 <= MAXLEN(build)
      /\ "fileexists" \in r.ops
      /\ ~r.saw.entry
      /\ ~r.hit

\* C11, witness: a request that missed has written its entry and returned.
C11_MissWroteEntry ==
  \E c \in Chans :
    /\ req[c].pc = "done"
    /\ req[c].wrote
    /\ "cachewrite" \in req[c].ops
    /\ req[c].saw.usecache > 0
    /\ ~req[c].saw.entry
    /\ FileExists(req[c].cachefile)

\* C12 (as stated): on a miss with caching active the stages come in the
\* order synthesize, resample, play, cache write: a request that has resampled
\* has synthesized, one that has started playback has synthesized, and one
\* that has written to the cache has attempted playback before.
C12_CacheWriteAfterPlay ==
  \A c \in Chans :
    LET r == req[c] IN
    r.writecache = 1 =>
      /\ "resample" \in r.ops => "synth" \in r.ops
      /\ "streamfile" \in r.ops => "synth" \in r.ops
      /\ "cachewrite" \in r.ops => "streamfile" \in r.ops

\* C13: a request whose cache write failed (the copy or the rename was called
\* and wrote no entry) returns the result of its playback: the value of
\* wait_stream when the stream started, the failure of stream_file when it
\* did not; the failed write changes nothing of it.
C13_WriteFailureKeepsResult ==
  \A c \in Chans :
    LET r == req[c] IN
    (r.pc = "done" /\ "cachewrite" \in r.ops /\ ~r.wrote) =>
      /\ r.ret = r.res
      /\ "streamfile" \in r.ops
      /\ "waitstream" \in r.ops => r.ret \in WaitResults
      /\ "waitstream" \notin r.ops => r.ret = 0 - 1

\* C13, witness: a request whose cache write failed has played its audio to
\* the end and returned 0.
C13_FailedWritePlayed ==
  \E c \in Chans :
    /\ req[c].pc = "done"
    /\ "cachewrite" \in req[c].ops
    /\ ~req[c].wrote
    /\ ~FileExists(req[c].cachefile)
    /\ "waitstream" \in req[c].ops
    /\ req[c].played /= Empty
    /\ req[c].ret = 0

\* C14: after a load or a reload that found espeak.conf missing or invalid,
\* read_config has returned 0 and every option holds its built-in default:
\* usecache off, cachedir /tmp, target rate 8000, speed 150, volume 100,
\* wordgap 1, pitch 50, capitals indication 0 and the default voice of the
\* build.
C14_DefaultsWithoutFile ==
  (module /= "unloaded" /\ loaded.file.status \in {"missing", "invalid"}) =>
    /\ loaded.ret = 0
    /\ conf.usecache = 0
    /\ conf.cachedir = "/tmp"
    /\ conf.target_sample_rate = 8000
    /\ conf.speed = 150
    /\ conf.volume = 100
    /\ conf.wordgap = 1
    /\ conf.pitch = 50
    /\ conf.capind = 0
    /\ conf.def_voice = IF build = "sndfile" THEN "default" ELSE "en-us"

\* C14, witness: the module is loaded, its configuration file was invalid and
\* the read started with the error indicator set.
C14_LoadedWithoutFile ==
  /\ module = "loaded"
  /\ loaded.file.status = "invalid"
  /\ loaded.errno = ERANGE
  /\ conf = Defaults(build)

\* C15 (as stated): two requests that are executing at the same time never
\* hold the same mkstemp name, and so never the same name with .sln or .sln16
\* appended to it.
C15_TempNamesDistinct ==
  \A a, b \in Chans :
    (/\ a /= b
     /\ req[a].pc \notin {"idle", "done"} /\ req[b].pc \notin {"idle", "done"}
     /\ req[a].raw_name /= "" /\ req[b].raw_name /= "") =>
       req[a].raw_name /= req[b].raw_name

\* C16 (as stated): a request that has called espeak_Synth called it on an
\* initialized engine, and the audio a successful call gave it is in the
\* voice that request selected (its language argument, else the default
\* voice it read), whatever the other request did to the engine meanwhile.
C16_OwnVoiceOwnEngine ==
  \A c \in Chans :
    LET r == req[c] IN
    "synth" \in r.ops =>
      /\ r.synth_up
      /\ r.espk_error = "EE_OK" => r.synth_out.voice = r.voice

\* C17 (as stated): the statics a request has read (default voice, usecache,
\* cachedir, the voice parameters, the target rate) all come from one load of
\* the configuration, and the format it names its file with (.sln16 or .sln)
\* is the one of the target rate it read for resampling.
C17_OneLoadPerRequest ==
  \A c \in Chans :
    LET r == req[c] IN
    /\ Cardinality(r.from) <= 1
    /\ r.format /= "" => ((r.format = "sln16") <=> (r.saw.rate = RATE_16K))

\* C18 (as stated): every step of reload_module leaves each option at the
\* value that the file read by that reload gives it, an option the file does
\* not hold at its default: at what read_config makes of that file alone,
\* with nothing left by an earlier load.
C18_ReloadFollowsFile ==
  [][reload_module(CfgFiles) => conf' = ReadConfig(build, loaded'.file, 0).conf]_vars

\* C19 (as stated): a request whose playback an interrupt key ended
\* (wait_stream returned the key) has called stop_stream, returns that key and
\* not -1, has made its cache write when it makes it after playback, and has
\* left no file under its temporary names.
C19_InterruptIsNormalExit ==
  \A c \in Chans :
    LET r == req[c]
        raw == TmpPath(r.raw_name)
    IN (r.pc = "done" /\ "waitstream" \in r.ops /\ r.res = InterruptKey) =>
         /\ "stopstream" \in r.ops
         /\ r.ret = InterruptKey
         /\ (build = "espeakng" /\ r.writecache = 1) => "cachewrite" \in r.ops
         /\ ~Exists(raw) /\ ~FileExists(raw)

\* C20 (as stated): the cache entry a request plays on a hit, when it is an
\* entry that was written to the end, is audio of the request's text in the
\* voice that request selected (its language argument, else the default
\* voice) and at the target rate in force when it plays it.
C20_HitPlaysOwnVoiceAndRate ==
  \A c \in Chans :
    LET r == req[c] IN
    (/\ r.pc = "done" /\ r.hit /\ "engine" \notin r.ops /\ "waitstream" \in r.ops
     /\ r.played.whole) =>
      /\ r.played.text = r.text
      /\ r.played.voice = r.voice
      /\ r.played.rate = r.saw.rate

\* C21 (as stated): a request that has returned after its resample stage
\* failed (open, allocation, interpolation or write-back) has left no file
\* under its temporary names.
C21_ResampleFailureCleansUp ==
  \A c \in Chans :
    LET r == req[c]
        raw == TmpPath(r.raw_name)
    IN (r.pc = "done" /\ r.resampled \in {"fail", "write"}) =>
         (~Exists(raw) /\ ~FileExists(raw))

\* C22 (as stated): a request that has returned after the engine reported a
\* synthesis result other than EE_OK has left no file under its temporary
\* names.
C22_SynthFailureCleansUp ==
  \A c \in Chans :
    LET r == req[c]
        raw == TmpPath(r.raw_name)
    IN (r.pc = "done" /\ r.espk_error /= "EE_OK") =>
         (~Exists(raw) /\ ~FileExists(raw))

\* C23 (as stated): what a request plays on a cache hit is never a cache file
\* that another request has opened for writing and not yet filled.
C23_HitPlaysFinishedEntry ==
  \A c \in Chans :
    LET r == req[c] IN
    (r.hit /\ "waitstream" \in r.ops /\ "engine" \notin r.ops) =>
      r.played /= Audio("", "", 0, 0, FALSE)

\* C24 (as stated): in every state a request that runs beside a reload can
\* observe, read_config's intermediate states included, target_sample_rate
\* is 8000 or 16000: the request resamples to one of these two rates and
\* names its file with exactly one of the formats sln and sln16.
C24_RateAlwaysSupported ==
  /\ Registered => conf.target_sample_rate \in {DEF_RATE, RATE_16K}
  /\ \A c \in Chans :
       LET r == req[c] IN
       /\ r.resampled /= "" => r.saw.rate \in {DEF_RATE, RATE_16K}
       /\ (r.pc \in {"copy", "copydata", "play", "cleanup"}) => r.format \in Formats

\* C25 (as stated): when a write to the temporary file fails during the
\* synthesis and synth_callback returns 1 to stop it, the request returns a
\* non-zero value, plays nothing and writes no cache entry.
C25_WriteFailureFails ==
  \A c \in Chans :
    LET r == req[c] IN
    (r.cb.calls > 0 /\ r.cb.wav /\ r.cb.n > 0 /\ r.cb.w = 0 /\ r.cb.ret = 1) =>
      /\ r.pc \in {"synth", "done"}
      /\ r.pc = "done" => r.ret /= 0
      /\ r.played = Empty
      /\ "cachewrite" \notin r.ops

\* C26 (as stated): when a request returns after its temporary file was
\* created, on a path other than a synthesis or resample failure (the stream
\* on the descriptor could not be opened; or the request went on to the
\* playback, which ran through, failed or was interrupted, with or without
\* a cache write), no file is left under the mkstemp name or under that name
\* with the extension sln or sln16.
C26_NoTempFileLeft ==
  \A c \in Chans :
    LET r == req[c]
        raw == TmpPath(r.raw_name)
        nostream == "synth" \notin r.ops
        toplay == /\ "synth" \in r.ops
                  /\ r.espk_error = "EE_OK"
                  /\ \/ r.resampled \in {"skip", "ok"}
                     \/ (build = "sndfile" /\ r.resampled = "write")
    IN (r.pc = "done" /\ r.raw_name /= "" /\ (nostream \/ toplay)) =>
         (~Exists(raw) /\ ~FileExists(raw))

\* C27 (as stated): espeak_exec returns 0 only if the text was empty or a
\* stream of this request started and the wait that followed it returned 0;
\* it returns -1 when the argument check, the engine initialization, the
\* voice selection, the creation of the temporary file, the synthesis or the
\* resampling fails; and when the last playback attempt fails it returns
\* the non-zero result of that attempt.
C27_ReturnValues ==
  \A c \in Chans :
    LET r == req[c]
        toplay == /\ "synth" \in r.ops
                  /\ r.espk_error = "EE_OK"
                  /\ \/ r.resampled \in {"skip", "ok"}
                     \/ (build = "sndfile" /\ r.resampled = "write")
        failed == \/ "noargs" \in r.ops
                  \/ ("engine" \in r.ops /\ "synth" \notin r.ops)
                  \/ r.espk_error /= "EE_OK"
                  \/ r.resampled \in {"fail", "write"}
    IN r.pc = "done" =>
         /\ r.ret = 0 => \/ (r.text = "" /\ "noargs" \notin r.ops)
                         \/ ("waitstream" \in r.ops /\ r.res = 0)
         /\ failed => r.ret = 0 - 1
         /\ (toplay /\ "waitstream" \notin r.ops) => r.ret /= 0
         /\ (toplay /\ r.res /= 0) => r.ret = r.res

\* C28 (as stated): over every sequence of load_module, reload_module and
\* unload_module and every outcome of the load of the file, no call of
\* ast_config_destroy is handed the invalid-file sentinel, and none is handed
\* a handle that an earlier call has destroyed.
C28_DestroyOnlyLiveHandle ==
  [][/\ (reload_module(CfgFiles) \/ unload_module) =>
          cfg \notin {"CONFIG_STATUS_FILEINVALID", "freed"}
     /\ (load_module(CfgFiles) /\ build = "espeakng" /\ module' = "declined") =>
          ConfigLoad(loaded'.file) /= "CONFIG_STATUS_FILEINVALID"]_vars

\* C29 (as stated): read_config resets a numeric option to its default only
\* when the text of that option is out of range for strtol: an option whose
\* text parses in range holds the parsed value (the sample rate: what the
\* closing check makes of it), whatever the text of another option is and
\* whatever the error indicator held when read_config started.
C29_OwnRangeErrorOnly ==
  (module /= "unloaded" /\ loaded.file.status = "ok") =>
    LET f == loaded.file IN
    /\ f.samplerate.kind = "int" =>
         conf.target_sample_rate = FallbackRate(f.samplerate.lo)
    /\ f.speed.kind = "int" => conf.speed = f.speed.lo

\* C30 (as stated): synth_callback returns 0 exactly when the buffer is not
\* null and all numsamples samples were written, a chunk of zero samples
\* counting as written in full; it returns 1 exactly when the buffer is null
\* or the chunk was not written in full.
C30_CallbackContinuesIffWritten ==
  \A c \in Chans :
    LET cb == req[c].cb IN
    cb.calls > 0 =>
      /\ cb.ret = 0 <=> (cb.wav /\ cb.w = cb.n)
      /\ cb.ret = 1 <=> (~cb.wav \/ cb.w < cb.n)

\* C31 (as stated): after a resample stage that succeeded, the number of
\* frames in the file is at most the number of output frames the converter
\* reported as generated, whatever number from 0 to the number asked for it
\* reported.
C31_OnlyGeneratedFrames ==
  \A c \in Chans :
    LET r == req[c]
        raw == TmpPath(r.raw_name)
    IN (r.pc = "names" /\ r.resampled = "ok" /\ r.conv.called) =>
         (Exists(raw) /\ files[raw].frames <= r.conv.gen)

\* C32: a request called with an empty argument string returns -1, and a
\* request whose text holds nothing, or nothing between its double quotes,
\* returns 0; either has returned at its first step, with no cache lookup,
\* no engine call, no temporary file, no playback and no cache write.
C32_NoTextNoWork ==
  \A c \in Chans :
    LET r == req[c]
        quiet == /\ r.pc = "done"
                 /\ r.ops \subseteq {"noargs"}
                 /\ r.cachefile = NoPath /\ r.raw_name = ""
                 /\ ~r.hit /\ ~r.wrote /\ ~r.clobbered
                 /\ r.played = Empty
    IN /\ "noargs" \in r.ops => (quiet /\ r.ret = 0 - 1)
       /\ (r.pc /= "idle" /\ r.notext /\ "noargs" \notin r.ops) => (quiet /\ r.ret = 0)

\* C32, witness: a request whose text was an empty pair of quotes, with no
\* language given, has returned 0 beside a cache that holds an entry.
C32_QuotesOnlyReturned ==
  \E c \in Chans :
    /\ req[c].pc = "done"
    /\ req[c].notext
    /\ "noargs" \notin req[c].ops
    /\ req[c].from /= {}
    /\ req[c].ret = 0
    /\ files /= <<>>

\* C33 (as stated): whenever the cache path is composed, the directory, a
\* slash and the 32 characters of the digest fit with the terminating NUL in
\* MAXLEN bytes, and so does that string with the suffix .sln16 appended to
\* it; the composed path is not cut.
C33_PathAndSuffixFit ==
  \A c \in Chans :
    LET r == req[c]
        len == StrLen(r.cachefile.dir) + 1 + 32
    IN r.cachefile /= NoPath =>
         /\ len + 1 <= MAXLEN(build)
         /\ len + 6 + 1 <= MAXLEN(build)
         /\ r.cachefile = CachePath(r.saw.cachedir, Md5(r.text))

\* C33 (amended): whenever the cache path is composed, the directory, a slash
\* and the 32 characters of the digest fit with the terminating NUL in the
\* MAXLEN bytes of cachefile, with at least 4 bytes to spare, and the path is
\* not cut; that string with the suffix .sln16 and the NUL takes up to
\* MAXLEN + 2 bytes.
C33_PathFitsBuffer ==
  \A c \in Chans :
    LET r == req[c]
        len == StrLen(r.cachefile.dir) + 1 + 32
    IN r.cachefile /= NoPath =>
         /\ len + 1 <= MAXLEN(build) - 4
         /\ len + 6 + 1 <= MAXLEN(build) + 2
         /\ r.cachefile = CachePath(r.saw.cachedir, Md5(r.text))

\* C33, witness: a request has composed its cache path under the longest
\* directory name the length check lets through; with .sln16 and the NUL the
\* path takes MAXLEN + 2 bytes.
C33_LongestDirComposed ==
  \E c \in Chans :
    /\ req[c].cachefile /= NoPath
    /\ "fileexists" \in req[c].ops
    /\ StrLen(req[c].cachefile.dir) + 32 + 6 = MAXLEN(build)
    /\ StrLen(req[c].cachefile.dir) + 1 + 32 + 6 + 1 = MAXLEN(build) + 2

====
